---- MODULE Spec2Model ----
(***************************************************************************)
(* Model of prism's "diff" command (cmd/diff.go): correlation of profile   *)
(* entries by function name, assembly of the n-way diff table and the      *)
(* formatting of one comparison cell.                                      *)
(*                                                                         *)
(* Representation                                                          *)
(*  - A profile tree (a profiler.Entry with its Children) is the sequence  *)
(*    of its entries, each carrying its Depth; the children of entry i are *)
(*    computed from the depths (Children).  An Entry pointer is the pair   *)
(*    <<profileId, index>>.                                                *)
(*  - A float64 is written as the expression that computes it from        *)
(*    fractions <<num, den>> of integers, and is compared and formatted by *)
(*    its binary value (see float64 below).                                *)
(*  - A time.Duration is a natural number of ticks, TicksPerMs to the      *)
(*    millisecond (Nanoseconds()/1.0e6 = ticks/TicksPerMs).                *)
(*  - Strings are TLA+ strings; ESC stands for the byte \033.              *)
(***************************************************************************)
EXTENDS Integers, Sequences, FiniteSets, TLC

VARIABLES
    pc,         \* position of the running call
    args,       \* ctx.Args(): the profile file arguments
    diffCols,   \* result of util.ParseTableColumList
    threshold,  \* ctx.Float64("threshold")
    profiles,   \* []*profiler.Entry loaded so far, in argument order
    correlMap,  \* correlatedEntriesMap: name -> (profileId -> entry)
    t,          \* *util.Table under construction
    stack,      \* pending populateDiffRows calls (entries of profiles[0])
    stdout,     \* tables written to os.Stdout
    err,        \* error returned by DiffProfiles
    fmtIn,      \* arguments of a direct fmtDiff call
    fmtOut      \* its result

vars == <<pc, args, diffCols, threshold, profiles, correlMap, t, stack,
          stdout, err, fmtIn, fmtOut>>

----------------------------------------------------------------------------
(* Bounds of the explored inputs *)

MaxArgs == 2          \* profile arguments on the command line
MaxBaseNodes == 4     \* entries in the tree of the first profile
MaxOtherNodes == 1    \* entries in the tree of every later profile
Names == {"main", "foo"}

----------------------------------------------------------------------------
(* Numbers *)

TicksPerMs == 250

Abs(x) == IF x < 0 THEN -x ELSE x

RECURSIVE GCD(_, _)
GCD(a, b) == IF b = 0 THEN a ELSE GCD(b, a % b)

\* the fraction n/d in lowest terms with a positive denominator; n/0 is kept
\* as <<1, 0>>, <<-1, 0>> or <<0, 0>>
Rat(n, d) ==
    IF d = 0 THEN <<IF n > 0 THEN 1 ELSE IF n < 0 THEN -1 ELSE 0, 0>>
    ELSE LET s == IF d < 0 THEN -1 ELSE 1
             g == GCD(Abs(n), Abs(d))
         IN  <<(s * n) \div g, (s * d) \div g>>

Zero == <<0, 1>>
One == <<1, 1>>
PosInf == <<1, 0>>
NegInf == <<-1, 0>>
NaN == <<0, 0>>
NegZero == <<0, -1>>

\* float64(d.Nanoseconds()) / 1.0e6
Millis(ticks) == Rat(ticks, TicksPerMs)

\* float64(total.Nanoseconds()) / float64(invocations*1e6): +Inf, -Inf or NaN
\* when invocations is 0, and the negative zero for 0 over a negative count
AvgMillis(ticks, invocations) ==
    IF ticks = 0 /\ invocations < 0 THEN NegZero
    ELSE Rat(ticks, invocations * TicksPerMs)

----------------------------------------------------------------------------
(* Natural numbers of any size: the sequence of their binary digits, the  *)
(* least significant first, without leading zeros (0 is the empty one)    *)

RECURSIVE BitsOf(_)
BitsOf(n) == IF n = 0 THEN <<>> ELSE <<n % 2>> \o BitsOf(n \div 2)

RECURSIVE BitsValue(_)
BitsValue(x) == IF x = <<>> THEN 0 ELSE Head(x) + 2 * BitsValue(Tail(x))

\* x without its leading zeros
BTrim(x) ==
    LET ones == {i \in 1..Len(x) : x[i] = 1}
    IN  IF ones = {} THEN <<>>
        ELSE SubSeq(x, 1, CHOOSE i \in ones : \A j \in ones : j <= i)

\* digit i of x
BDigit(x, i) == IF i <= Len(x) THEN x[i] ELSE 0

\* x * 2^k
BShl(x, k) == IF x = <<>> THEN <<>> ELSE [i \in 1..k |-> 0] \o x

\* x \div 2^k
BShr(x, k) == SubSeq(x, k + 1, Len(x))

\* x % 2^k
BLow(x, k) == BTrim(SubSeq(x, 1, IF k < Len(x) THEN k ELSE Len(x)))

\* -1, 0 or 1 as x is below, equal to or above y
BCmp(x, y) ==
    IF Len(x) # Len(y) THEN (IF Len(x) < Len(y) THEN -1 ELSE 1)
    ELSE LET differ == {i \in 1..Len(x) : x[i] # y[i]}
         IN  IF differ = {} THEN 0
             ELSE LET top == CHOOSE i \in differ : \A j \in differ : j <= i
                  IN  IF x[top] < y[top] THEN -1 ELSE 1

\* digits lo..hi of x + y + c, c being the carry into digit lo, and the
\* carry out of digit hi; the range is halved so that long numbers do not
\* nest deeply
RECURSIVE BAddDigits(_, _, _, _, _)
BAddDigits(x, y, lo, hi, c) ==
    IF lo = hi
    THEN LET s == BDigit(x, lo) + BDigit(y, lo) + c
         IN  [s |-> <<s % 2>>, c |-> s \div 2]
    ELSE LET mid == (lo + hi) \div 2
             low == BAddDigits(x, y, lo, mid, c)
             high == BAddDigits(x, y, mid + 1, hi, low.c)
         IN  [s |-> low.s \o high.s, c |-> high.c]

BAdd(x, y) ==
    LET n == (IF Len(x) > Len(y) THEN Len(x) ELSE Len(y)) + 1
    IN  BTrim(BAddDigits(x, y, 1, n, 0).s)

\* digits lo..hi of x - y - c, c being the borrow from digit lo, and the
\* borrow from digit hi + 1
RECURSIVE BSubDigits(_, _, _, _, _)
BSubDigits(x, y, lo, hi, c) ==
    IF lo = hi
    THEN LET s == BDigit(x, lo) - BDigit(y, lo) - c
         IN  [s |-> <<s % 2>>, c |-> IF s < 0 THEN 1 ELSE 0]
    ELSE LET mid == (lo + hi) \div 2
             low == BSubDigits(x, y, lo, mid, c)
             high == BSubDigits(x, y, mid + 1, hi, low.c)
         IN  [s |-> low.s \o high.s, c |-> high.c]

\* x - y for x >= y
BSub(x, y) == IF x = <<>> THEN <<>> ELSE BTrim(BSubDigits(x, y, 1, Len(x), 0).s)

\* x times the digits lo..hi of y in their places
RECURSIVE BMulDigits(_, _, _, _)
BMulDigits(x, y, lo, hi) ==
    IF lo = hi THEN (IF y[lo] = 1 THEN BShl(x, lo - 1) ELSE <<>>)
    ELSE LET mid == (lo + hi) \div 2
         IN  BAdd(BMulDigits(x, y, lo, mid), BMulDigits(x, y, mid + 1, hi))

BMul(x, y) == IF y = <<>> THEN <<>> ELSE BMulDigits(x, y, 1, Len(y))

\* long division of n by d > 0 over the digits hi down to lo of n, r being
\* the remainder left by the digits above hi: the digits of the quotient,
\* the most significant first, and the remainder
RECURSIVE BDivDigits(_, _, _, _, _)
BDivDigits(n, d, hi, lo, r) ==
    IF hi = lo
    THEN LET r2 == BTrim(<<n[lo]>> \o r)
         IN  IF BCmp(r2, d) >= 0 THEN [q |-> <<1>>, r |-> BSub(r2, d)]
             ELSE [q |-> <<0>>, r |-> r2]
    ELSE LET mid == (lo + hi) \div 2
             high == BDivDigits(n, d, hi, mid + 1, r)
             low == BDivDigits(n, d, mid, lo, high.r)
         IN  [q |-> high.q \o low.q, r |-> low.r]

\* the quotient of a long division over len digits, the least significant
\* digit first, with the remainder
BQuotient(dm, len) ==
    [q |-> BTrim([i \in 1..len |-> dm.q[len + 1 - i]]), r |-> dm.r]

\* quotient and remainder of n by d > 0
BDivMod(n, d) ==
    IF n = <<>> THEN [q |-> <<>>, r |-> <<>>]
    ELSE BQuotient(BDivDigits(n, d, Len(n), 1, <<>>), Len(n))

\* x / 2^k rounded to the nearest integer, a tie going to the even one;
\* sticky tells that the value is a little more than x / 2^k
BRoundShr(x, k, sticky) ==
    IF k <= 0 THEN BShl(x, -k)
    ELSE LET top == BShr(x, k)
             low == BLow(x, k)
             rest == BLow(low, k - 1) # <<>> \/ sticky
             half == Len(low) = k
             up == half /\ (rest \/ (top # <<>> /\ top[1] = 1))
         IN  IF up THEN BAdd(top, <<1>>) ELSE top

----------------------------------------------------------------------------
(* float64                                                                 *)
(*                                                                         *)
(* A float64 value is written as the expression that computes it:          *)
(*   <<n, d>>       the float64 nearest to the fraction n/d, as a          *)
(*                  conversion or a correctly rounded division of integers *)
(*                  gives it; <<1, 0>>, <<-1, 0>> and <<0, 0>> are +Inf,   *)
(*                  -Inf and NaN, and <<0, -1>> is the negative zero       *)
(*   <<"-", x, y, i>>    the float64 difference of x and y                 *)
(*   <<"/", x, y, i>>    the float64 quotient of x and y                   *)
(*   <<"abs", x, x, i>>  math.Abs(x)                                       *)
(* where i is the fraction the operation gives without rounding (Ideal).   *)
(* F64Exact gives the binary value of an expression: its kind ("fin",      *)
(* "inf" or "nan"), the sign, the 53 digits of the significand m and the   *)
(* exponent e of m * 2^e, every operation rounding to the nearest value, a *)
(* tie to the even significand; a zero has no digits and keeps its sign.   *)
(* Exponents are not bounded: no operation of the command comes near the   *)
(* overflow or the subnormal range.                                        *)

\* a fraction with a positive denominator: a finite value
IsFraction(v) == Len(v) = 2 /\ v[2] > 0

\* a * b < 2^30, for a and b that are not negative
Fits(a, b) == a = 0 \/ b <= 1073741823 \div a

\* fractions of one value
SameFraction(x, y) ==
    IF Fits(Abs(x[1]), y[2]) /\ Fits(Abs(y[1]), x[2])
    THEN x[1] * y[2] = y[1] * x[2]
    ELSE Rat(x[1], x[2]) = Rat(y[1], y[2])

\* a fraction of integers up to Small with one of these denominators is a
\* float64 value
PowersOfTwo == {2 ^ k : k \in 0..15}

\* the fast comparisons are made on fractions of integers up to 2^15:
\* their cross products are below 2^31, and 16 * a * q1 * q2 <= 2^53 for
\* such a, q1 and q2
Small == 32768

NoIdeal == [ok |-> FALSE, p |-> 0, q |-> 1, a |-> 0, exact |-> FALSE]

\* the fraction p/q an expression gives without rounding, with an integer
\* a that bounds the magnitude of the operands and of the result; ok is
\* FALSE where the fraction is not kept, and exact is TRUE where no
\* operation of the expression rounds, the float64 value being p/q
IdealOf(p, q, a, exact) ==
    [ok |-> Abs(p) <= Small /\ q <= Small /\ a <= Small, p |-> p, q |-> q,
     a |-> a, exact |-> exact /\ q \in PowersOfTwo]

Ideal(v) ==
    IF Len(v) = 2
    THEN (IF v[2] > 0 THEN IdealOf(v[1], v[2], Abs(v[1]), TRUE) ELSE NoIdeal)
    ELSE v[4]

IdealSub(x, y) ==
    IF x.ok /\ y.ok
    THEN LET r == Rat(x.p * y.q - y.p * x.q, x.q * y.q)
         IN  IdealOf(r[1], r[2], IF x.a > y.a THEN x.a ELSE y.a,
                     x.exact /\ y.exact)
    ELSE NoIdeal

IdealDiv(x, y) ==
    IF x.ok /\ y.ok /\ y.p # 0
    THEN LET r == Rat(x.p * y.q, x.q * y.p)
         IN  IdealOf(r[1], r[2], Abs(x.p) * y.q, x.exact /\ y.exact)
    ELSE NoIdeal

\* x - y; the difference of a finite value and itself is 0
F64Sub(x, y) ==
    IF IsFraction(x) /\ IsFraction(y)
    THEN (IF SameFraction(x, y) THEN Zero
          ELSE <<"-", x, y, IdealSub(Ideal(x), Ideal(y))>>)
    ELSE <<"-", x, y, NoIdeal>>

\* x / y; a finite value other than 0 divided by itself is 1, and 0 divided
\* by a positive value is 0
F64Div(x, y) ==
    IF IsFraction(x) /\ IsFraction(y)
    THEN (IF x[1] # 0 /\ SameFraction(x, y) THEN One
          ELSE IF x[1] = 0 /\ y[1] > 0 THEN Zero
          ELSE <<"/", x, y, IdealDiv(Ideal(x), Ideal(y))>>)
    ELSE <<"/", x, y, NoIdeal>>

\* math.Abs(x)
F64Abs(x) ==
    IF IsFraction(x) THEN <<Abs(x[1]), x[2]>>
    ELSE <<"abs", x, x, [Ideal(x) EXCEPT !.p = Abs(@)]>>

F64Zero(neg) == [kind |-> "fin", neg |-> neg, m |-> <<>>, e |-> 0]
F64Inf(neg) == [kind |-> "inf", neg |-> neg, m |-> <<>>, e |-> 0]
F64NaN == [kind |-> "nan", neg |-> FALSE, m |-> <<>>, e |-> 0]

\* the float64 m * 2^e for a significand m of 53 digits, or of the 54
\* digits 2^53 that rounding up can leave
F64Normal(neg, m, e) ==
    IF Len(m) = 54
    THEN [kind |-> "fin", neg |-> neg, m |-> BShr(m, 1), e |-> e + 1]
    ELSE [kind |-> "fin", neg |-> neg, m |-> m, e |-> e]

\* the float64 nearest to n * 2^e (to a little more when sticky), n # 0
F64Round(neg, n, e, sticky) ==
    F64Normal(neg, BRoundShr(n, Len(n) - 53, sticky), e + Len(n) - 53)

\* the float64 nearest to the quotient dm.q * 2^e of a division that left
\* the remainder dm.r
F64RoundQuotient(neg, dm, e) == F64Round(neg, dm.q, e, dm.r # <<>>)

\* float64(n) / float64(d) for integers n and d
F64OfFraction(n, d) ==
    LET neg == (n < 0) # (d < 0)
    IN  IF d = 0 THEN (IF n = 0 THEN F64NaN ELSE F64Inf(n < 0))
        ELSE IF n = 0 THEN F64Zero(d < 0)
        ELSE LET bn == BitsOf(Abs(n))
                 bd == BitsOf(Abs(d))
                 s == IF Len(bd) + 55 > Len(bn) THEN Len(bd) + 55 - Len(bn)
                      ELSE 0
             IN  F64RoundQuotient(neg, BDivMod(BShl(bn, s), bd), -s)

\* -1, 0 or 1 as the magnitude of the finite x is below, equal to or above
\* that of the finite y
F64CmpMagnitude(x, y) ==
    IF x.m = <<>> \/ y.m = <<>>
    THEN (IF x.m = y.m THEN 0 ELSE IF x.m = <<>> THEN -1 ELSE 1)
    ELSE IF x.e # y.e THEN (IF x.e < y.e THEN -1 ELSE 1)
    ELSE BCmp(x.m, y.m)

\* -1, 0 or 1 as x is below, equal to or above y, neither being NaN
F64Cmp(x, y) ==
    LET sign(v) == IF v.kind = "fin" /\ v.m = <<>> THEN 0
                   ELSE IF v.neg THEN -1 ELSE 1
        rank(v) == IF v.kind = "inf" THEN 2 * sign(v) ELSE sign(v)
    IN  IF rank(x) # rank(y) THEN (IF rank(x) < rank(y) THEN -1 ELSE 1)
        ELSE IF x.kind = "inf" THEN 0
        ELSE sign(x) * F64CmpMagnitude(x, y)

\* x - y rounded
F64ExactSub(x, y) ==
    IF x.kind = "nan" \/ y.kind = "nan" THEN F64NaN
    ELSE IF x.kind = "inf"
    THEN (IF y.kind = "inf" /\ y.neg = x.neg THEN F64NaN ELSE x)
    ELSE IF y.kind = "inf" THEN F64Inf(~y.neg)
    ELSE IF y.m = <<>>
    THEN (IF x.m = <<>> THEN F64Zero(x.neg /\ ~y.neg) ELSE x)
    ELSE IF x.m = <<>> THEN [y EXCEPT !.neg = ~y.neg]
    ELSE LET e == IF x.e < y.e THEN x.e ELSE y.e
             a == BShl(x.m, x.e - e)
             b == BShl(y.m, y.e - e)
             c == BCmp(a, b)
         IN  IF x.neg # y.neg THEN F64Round(x.neg, BAdd(a, b), e, FALSE)
             ELSE IF c = 0 THEN F64Zero(FALSE)
             ELSE IF c > 0 THEN F64Round(x.neg, BSub(a, b), e, FALSE)
             ELSE F64Round(~x.neg, BSub(b, a), e, FALSE)

\* x / y rounded
F64ExactDiv(x, y) ==
    LET neg == x.neg # y.neg
    IN  IF x.kind = "nan" \/ y.kind = "nan" THEN F64NaN
        ELSE IF x.kind = "inf"
        THEN (IF y.kind = "inf" THEN F64NaN ELSE F64Inf(neg))
        ELSE IF y.kind = "inf" THEN F64Zero(neg)
        ELSE IF y.m = <<>>
        THEN (IF x.m = <<>> THEN F64NaN ELSE F64Inf(neg))
        ELSE IF x.m = <<>> THEN F64Zero(neg)
        ELSE F64RoundQuotient(neg, BDivMod(BShl(x.m, 56), y.m),
                              x.e - y.e - 56)

RECURSIVE F64Exact(_)
F64Exact(v) ==
    IF Len(v) = 2 THEN F64OfFraction(v[1], v[2])
    ELSE IF v[1] = "-" THEN F64ExactSub(F64Exact(v[2]), F64Exact(v[3]))
    ELSE IF v[1] = "/" THEN F64ExactDiv(F64Exact(v[2]), F64Exact(v[3]))
    ELSE [F64Exact(v[2]) EXCEPT !.neg = FALSE]

----------------------------------------------------------------------------
(* Comparison and formatting of float64 values                             *)
(*                                                                         *)
(* The value of an expression differs from the fraction the expression     *)
(* would give without rounding by at most 5 * 2^-53 times the magnitude of *)
(* its operands (Ideal, for an expression of one operation on fractions).  *)
(* Two such fractions that differ, differ by at least 1 over the product   *)
(* of their denominators, which for the fractions kept is more than the    *)
(* rounding errors: the comparison of the float64 values is then the       *)
(* comparison of the fractions (Separated). The same holds where both      *)
(* values are their fractions. Every other comparison is made on the       *)
(* binary values.                                                          *)

\* the fractions x and y can be compared in place of the float64 values
Separated(x, y) ==
    /\ x.ok /\ y.ok
    /\ (x.exact /\ y.exact) \/ x.p * y.q # y.p * x.q

\* the comparison of two binary values: 2 when one of them is NaN
F64CmpExact(x, y) ==
    IF x.kind = "nan" \/ y.kind = "nan" THEN 2 ELSE F64Cmp(x, y)

\* -1, 0 or 1 as x is below, equal to or above y; 2 when one of them is NaN
F64Compare(x, y) ==
    LET ix == Ideal(x)
        iy == Ideal(y)
    IN  IF Separated(ix, iy)
        THEN (IF ix.p * iy.q < iy.p * ix.q THEN -1
              ELSE IF ix.p * iy.q = iy.p * ix.q THEN 0 ELSE 1)
        ELSE IF IsFraction(x) /\ IsFraction(y) /\ SameFraction(x, y) THEN 0
        ELSE F64CmpExact(F64Exact(x), F64Exact(y))

F64Less(x, y) == F64Compare(x, y) = -1
F64Eq(x, y) == F64Compare(x, y) = 0
F64Neq(x, y) == F64Compare(x, y) # 0
F64GE(x, y) == F64Compare(x, y) \in {0, 1}

----------------------------------------------------------------------------
(* fmt.Sprintf verbs *)

Digit(d) == CASE d = 0 -> "0" [] d = 1 -> "1" [] d = 2 -> "2" [] d = 3 -> "3"
              [] d = 4 -> "4" [] d = 5 -> "5" [] d = 6 -> "6" [] d = 7 -> "7"
              [] d = 8 -> "8" [] d = 9 -> "9"

\* %d
RECURSIVE FmtInt(_)
FmtInt(n) ==
    IF n < 0 THEN "-" \o FmtInt(-n)
    ELSE IF n < 10 THEN Digit(n)
    ELSE FmtInt(n \div 10) \o Digit(n % 10)

RECURSIVE FmtBits(_)

\* the decimal digits of 10 * dm.q + dm.r
FmtBitsStep(dm) ==
    (IF dm.q = <<>> THEN "" ELSE FmtBits(dm.q)) \o Digit(BitsValue(dm.r))

\* the decimal digits of a natural number of any size
FmtBits(x) ==
    IF Len(x) <= 3 THEN Digit(BitsValue(x))
    ELSE FmtBitsStep(BDivMod(x, BitsOf(10)))

\* the digits after the point of a value that was scaled by 10^decimals
RECURSIVE FmtDecimals(_, _)
FmtDecimals(h, decimals) ==
    IF decimals = 0 THEN ""
    ELSE FmtDecimals(h \div 10, decimals - 1) \o Digit(h % 10)

RECURSIVE Pow10(_)
Pow10(k) == IF k = 0 THEN 1 ELSE 10 * Pow10(k - 1)

\* the sign, the integer part dm.q and the digits dm.r after the point
FmtScaled(neg, dm, decimals) ==
    (IF neg THEN "-" ELSE "") \o FmtBits(dm.q) \o "."
        \o FmtDecimals(BitsValue(dm.r), decimals)

\* strconv's %f of a binary value: the decimal expansion of the value itself
\* rounded to the digits asked for, a tie going to the even digit
FmtExact(x, decimals) ==
    IF x.kind = "nan" THEN "NaN"
    ELSE IF x.kind = "inf" THEN (IF x.neg THEN "-Inf" ELSE "+Inf")
    ELSE LET scale == BitsOf(Pow10(decimals))
         IN  FmtScaled(x.neg,
                       BDivMod(BRoundShr(BMul(x.m, scale), -x.e, FALSE), scale),
                       decimals)

\* the fraction x rounds to the digits asked for as the float64 value does:
\* it is the float64 value, or it is not half-way between two values of
\* these digits, and is then farther from such a point than the float64
\* value is from x
RoundsAsFraction(x, scale) ==
    /\ x.ok
    /\ x.exact \/ (2 * scale * Abs(x.p)) % (2 * x.q) # x.q

\* %.<decimals>f of a float64 value
FmtFixed(v, decimals) ==
    LET x == Ideal(v)
        scale == Pow10(decimals)
    IN  IF RoundsAsFraction(x, scale) /\ (x.p # 0 \/ IsFraction(v))
        THEN LET up == (2 * scale * Abs(x.p) + x.q) \div (2 * x.q)
                 tie == (2 * scale * Abs(x.p)) % (2 * x.q) = x.q
                 h == IF tie /\ up % 2 = 1 THEN up - 1 ELSE up
             IN  (IF x.p < 0 THEN "-" ELSE "") \o FmtInt(h \div scale) \o "."
                     \o FmtDecimals(h % scale, decimals)
        ELSE FmtExact(F64Exact(v), decimals)

\* %1.2f
FmtFixed2(v) == FmtFixed(v, 2)

\* %2.1f
FmtFixed1(v) == FmtFixed(v, 1)

----------------------------------------------------------------------------
(* fmtDiff *)

ESC == "\\033"
Yellow == ESC \o "[33m"
Green == ESC \o "[32m"
Red == ESC \o "[31m"
Reset == ESC \o "[0m"

diffEpsilon == <<1, 100>>

\* a fmtDiffSpeedup without the override below diffEpsilon
fmtDiffSpeedupNoEpsilon(baseLine, candidate, absDelta) ==
    IF F64Neq(candidate, Zero) THEN F64Div(baseLine, candidate) ELSE Zero

\* the local variable speedup at the point where the colour is chosen
fmtDiffSpeedup(baseLine, candidate, absDelta) ==
    IF F64Less(absDelta, diffEpsilon) THEN One
    ELSE IF F64Neq(candidate, Zero) THEN F64Div(baseLine, candidate)
    ELSE Zero

\* a fmtDiffColor that takes a larger candidate for an improvement
fmtDiffColorSwapped(speedup) ==
    LET toOne == F64Compare(speedup, One)
    IN  IF F64Eq(speedup, Zero) \/ toOne = 0 THEN Yellow
        ELSE IF toOne \in {0, 1} THEN Red
        ELSE Green

\* speedup == 0.0 || speedup == 1.0, then speedup >= 1.0
fmtDiffColor(speedup) ==
    LET toOne == F64Compare(speedup, One)
    IN  IF F64Eq(speedup, Zero) \/ toOne = 0 THEN Yellow
        ELSE IF toOne \in {0, 1} THEN Green
        ELSE Red

\* fmt.Sprintf("%1.2f (%s%2.1fx\\033[0m)", candidate, color, speedup)
fmtDiffCell(candidate, speedup) ==
    FmtFixed2(candidate) \o " (" \o fmtDiffColor(speedup)
        \o FmtFixed1(speedup) \o "x" \o Reset \o ")"

\* a fmtDiff that also clips a difference equal to the threshold
fmtDiffClipInclusive(baseLine, candidate, thr) ==
    LET absDelta == F64Abs(F64Sub(baseLine, candidate))
    IN  IF F64Less(absDelta, thr) \/ F64Eq(absDelta, thr)
        THEN FmtFixed2(candidate) \o " (--)"
        ELSE fmtDiffCell(candidate,
                         fmtDiffSpeedup(baseLine, candidate, absDelta))

fmtDiff(baseLine, candidate, thr) ==
    LET absDelta == F64Abs(F64Sub(baseLine, candidate))
    IN  IF F64Less(absDelta, thr)
        THEN FmtFixed2(candidate) \o " (--)"
        ELSE fmtDiffCell(candidate,
                         fmtDiffSpeedup(baseLine, candidate, absDelta))

----------------------------------------------------------------------------
(* Profile trees *)

\* indices of the children of entry i, in order (pe.Children)
Children(tree, i) ==
    SelectSeq([j \in 1..Len(tree) |-> j],
              LAMBDA j : /\ j > i
                         /\ tree[j].Depth = tree[i].Depth + 1
                         /\ \A k \in (i + 1)..(j - 1) :
                                tree[k].Depth > tree[i].Depth)

\* the entry a pointer <<profileId, index>> refers to
Deref(ps, ptr) == ps[ptr[1] + 1][ptr[2]]

----------------------------------------------------------------------------
(* correlateEntries *)

\* a groupEntry that drops the slots of the other profiles
groupEntryReplacingList(entryGroupsByName, name, profileId, pe) ==
    IF name \in DOMAIN entryGroupsByName
    THEN [entryGroupsByName EXCEPT ![name] = (profileId :> pe)]
    ELSE entryGroupsByName @@ (name :> (profileId :> pe))

\* a groupEntry that keeps the entry it recorded first
groupEntryFirstWins(entryGroupsByName, name, profileId, pe) ==
    IF name \in DOMAIN entryGroupsByName
    THEN LET list == entryGroupsByName[name]
             list2 == [id \in DOMAIN list \cup {profileId} |->
                         IF id \in DOMAIN list THEN list[id] ELSE pe]
         IN  [entryGroupsByName EXCEPT ![name] = list2]
    ELSE entryGroupsByName @@ (name :> (profileId :> pe))

\* the if/else of populateEntryGroups: record pe under its name for profileId
groupEntry(entryGroupsByName, name, profileId, pe) ==
    IF name \in DOMAIN entryGroupsByName
    THEN LET list == entryGroupsByName[name]
             list2 == [id \in DOMAIN list \cup {profileId} |->
                         IF id = profileId THEN pe ELSE list[id]]
         IN  [entryGroupsByName EXCEPT ![name] = list2]
    ELSE entryGroupsByName @@ (name :> (profileId :> pe))

RECURSIVE populateEntryGroups(_, _, _, _)
RECURSIVE populateEntryGroupsChildren(_, _, _, _, _)

populateEntryGroups(profileId, tree, i, entryGroupsByName) ==
    populateEntryGroupsChildren(profileId, tree, Children(tree, i), 1,
        groupEntry(entryGroupsByName, tree[i].Name, profileId, <<profileId, i>>))

populateEntryGroupsChildren(profileId, tree, children, k, entryGroupsByName) ==
    IF k > Len(children) THEN entryGroupsByName
    ELSE populateEntryGroupsChildren(profileId, tree, children, k + 1,
             populateEntryGroups(profileId, tree, children[k],
                                 entryGroupsByName))

EmptyMap == [n \in {} |-> <<>>]

\* the loop of correlateEntries, visiting the profiles in the order ids
RECURSIVE correlateLoop(_, _, _, _)
correlateLoop(ps, ids, k, entryGroupsByName) ==
    IF k > Len(ids) THEN entryGroupsByName
    ELSE correlateLoop(ps, ids, k + 1,
             populateEntryGroups(ids[k], ps[ids[k] + 1], 1, entryGroupsByName))

correlateEntries(ps) ==
    correlateLoop(ps, [k \in 1..Len(ps) |-> k - 1], 1, EmptyMap)

----------------------------------------------------------------------------
(* tabularizeDiff *)

TableColTotal == "total"
TableColAvg == "avg"
TableColMin == "min"
TableColMax == "max"
TableColInvocations == "invocations"

\* dType.Header()
Header(dType) == dType

AlignLeft == "left"
AlignRight == "right"

\* a headerBaseIndex that forgets the width of a profile's group
headerBaseIndexNarrow(startOffset, index, cols) == startOffset + index

\* first header index of the columns of a profile
headerBaseIndex(startOffset, index, cols) == startOffset + index * Len(cols)

\* the table as tabularizeDiff has it before it populates the rows
tabularizeHeaders(ps, cols) ==
    LET n == Len(ps) * Len(cols) + 1
        startOffset == 1
        \* the loop iterations (index, dIndex) that assign flat column k
        writers(k) == {w \in (0..(Len(ps) - 1)) \X (0..(Len(cols) - 1)) :
                         headerBaseIndex(startOffset, w[1], cols) + w[2] = k}
        last(k) == CHOOSE w \in writers(k) :
                         \A v \in writers(k) :
                             v[1] < w[1] \/ (v[1] = w[1] /\ v[2] <= w[2])
    IN  [Headers |-> [k \in 1..n |->
                        IF writers(k - 1) # {}
                        THEN Header(cols[last(k - 1)[2] + 1])
                        ELSE IF k - 1 = 0 THEN "call stack" ELSE ""],
         HeaderGroups |-> [g \in 1..(Len(ps) + 1) |->
                        IF g - 1 = 0 THEN [Header |-> "", ColSpan |-> 1]
                        ELSE [Header |-> IF g - 1 - startOffset = 0
                                         THEN "baseline"
                                         ELSE "profile "
                                              \o FmtInt(g - 1 - startOffset),
                              ColSpan |-> Len(cols)]],
         Alignment |-> [k \in 1..n |->
                        IF writers(k - 1) # {} THEN AlignRight ELSE AlignLeft],
         Rows |-> <<>>,
         Padding |-> 1]

\* the value a column shows for an entry
colValue(dType, entry) ==
    CASE dType = TableColTotal -> Millis(entry.TotalTime)
      [] dType = TableColAvg -> AvgMillis(entry.TotalTime, entry.Invocations)
      [] dType = TableColMin -> Millis(entry.MinTime)
      [] dType = TableColMax -> Millis(entry.MaxTime)

Range(seq) == {seq[k] : k \in DOMAIN seq}

\* the flags of the command lines: the column list util.ParseTableColumList
\* returns for the columns flag, with the value of the threshold flag
CommandLines ==
    { [columns |-> <<>>, threshold |-> Zero],
      [columns |-> <<TableColAvg>>, threshold |-> Zero],
      [columns |-> <<TableColMin, TableColInvocations, TableColTotal,
                     TableColMax>>,
       threshold |-> <<10, 1>>] }

\* measurements of the entries of a profiling run, by position in the tree
RunTimings ==
    << \* a slow run
       << [TotalTime |-> 30000, MinTime |-> 30000, MaxTime |-> 30000, Invocations |-> 1],
          [TotalTime |-> 30000, MinTime |-> 2500, MaxTime |-> 27500, Invocations |-> 2],
          [TotalTime |-> 2501, MinTime |-> 0, MaxTime |-> 2000, Invocations |-> 1],
          [TotalTime |-> 6000, MinTime |-> 1, MaxTime |-> 3000, Invocations |-> 3] >>,
       \* a fast run
       << [TotalTime |-> 2500, MinTime |-> 2000, MaxTime |-> 2250, Invocations |-> 1],
          [TotalTime |-> 2500, MinTime |-> 1000, MaxTime |-> 1500, Invocations |-> 2],
          [TotalTime |-> 2500, MinTime |-> 0, MaxTime |-> 3000, Invocations |-> 1],
          [TotalTime |-> 3000, MinTime |-> 2, MaxTime |-> 1500, Invocations |-> 3] >> >>

\* the values fmtDiff is called on for the measurements of the runs, under
\* the flags of the command lines
TimingCalls ==
    {<<colValue(dType, b), colValue(dType, c), cl.threshold>> :
        b \in UNION {Range(RunTimings[r]) : r \in DOMAIN RunTimings},
        c \in UNION {Range(RunTimings[r]) : r \in DOMAIN RunTimings},
        dType \in {TableColTotal, TableColAvg, TableColMin, TableColMax},
        cl \in CommandLines}

\* fmtDiff on these values, computed once
fmtDiffOfTimings ==
    [call \in TimingCalls |-> fmtDiff(call[1], call[2], call[3])]

\* fmtDiff(baseLine, candidate, thr), read from fmtDiffOfTimings where it has
\* the call
fmtDiffCall(baseLine, candidate, thr) ==
    IF <<baseLine, candidate, thr>> \in TimingCalls
    THEN fmtDiffOfTimings[<<baseLine, candidate, thr>>]
    ELSE fmtDiff(baseLine, candidate, thr)

\* a rowBaseIndex that gives every profile the cells of the first
rowBaseIndexShared(profileId, cols) == 0 * Len(cols) + 1

\* first index of the cells of a profile in a row
rowBaseIndex(profileId, cols) == profileId * Len(cols) + 1

\* a populateSlot that compares the baseline with itself as well
populateSlotAlwaysDiff(row, profileId, entry, baseLine, cols, thr) ==
    LET baseIndex == rowBaseIndex(profileId, cols)
        cell(dType) ==
            IF baseLine # <<>>
            THEN IF dType = TableColInvocations
                 THEN FmtInt(entry.Invocations)
                 ELSE fmtDiffCall(colValue(dType, baseLine[1]),
                                  colValue(dType, entry), thr)
            ELSE IF dType = TableColInvocations
                 THEN FmtInt(entry.Invocations)
                 ELSE FmtFixed2(colValue(dType, entry)) \o " (---)"
    IN  [k \in DOMAIN row |->
            IF k - 1 - baseIndex \in 0..(Len(cols) - 1)
            THEN cell(cols[k - 1 - baseIndex + 1])
            ELSE row[k]]

\* one iteration of the loop over entryGroupsByName[pe.Name]; baseLine is
\* <<>> for the nil pointer and <<entry>> otherwise
populateSlot(row, profileId, entry, baseLine, cols, thr) ==
    LET baseIndex == rowBaseIndex(profileId, cols)
        cell(dType) ==
            IF baseLine # <<>> /\ profileId # 0
            THEN IF dType = TableColInvocations
                 THEN FmtInt(entry.Invocations)
                 ELSE fmtDiffCall(colValue(dType, baseLine[1]),
                                  colValue(dType, entry), thr)
            ELSE IF dType = TableColInvocations
                 THEN FmtInt(entry.Invocations)
                 ELSE FmtFixed2(colValue(dType, entry)) \o " (---)"
    IN  [k \in DOMAIN row |->
            IF k - 1 - baseIndex \in 0..(Len(cols) - 1)
            THEN cell(cols[k - 1 - baseIndex + 1])
            ELSE row[k]]

RECURSIVE populateSlots(_, _, _, _, _, _, _, _)
populateSlots(row, order, k, ps, slots, baseLine, cols, thr) ==
    IF k > Len(order) THEN row
    ELSE populateSlots(
             populateSlot(row, order[k], Deref(ps, slots[order[k]]), baseLine,
                          cols, thr),
             order, k + 1, ps, slots, baseLine, cols, thr)

\* the panic of strings.Repeat
RepeatPanic == "panic: strings: negative Repeat count"

\* strings.Repeat(s, count): the repeated string, or the panic for a
\* negative count
RECURSIVE Repeat(_, _)
Repeat(s, count) ==
    IF count < 0 THEN RepeatPanic
    ELSE IF count = 0 THEN ""
    ELSE s \o Repeat(s, count - 1)

\* a callCell that marks a leaf "+ " and an entry with children "- "
callCellMarkersSwapped(tree, i) ==
    LET call == Repeat("| ", tree[i].Depth)
    IN  IF call = RepeatPanic THEN RepeatPanic
        ELSE call \o (IF Len(Children(tree, i)) = 0 THEN "+ " ELSE "- ")
                 \o tree[i].Name

\* the call-stack cell of an entry, or the panic that ends the command
callCell(tree, i) ==
    LET call == Repeat("| ", tree[i].Depth)
    IN  IF call = RepeatPanic THEN RepeatPanic
        ELSE call \o (IF Len(Children(tree, i)) = 0 THEN "- " ELSE "+ ")
                 \o tree[i].Name

\* what is left of a row, and of the rows, when populateDiffRows panics
PanicRow == <<RepeatPanic>>
Panicked(rows) == rows # <<>> /\ rows[Len(rows)] = PanicRow

\* entryGroupsByName[name]: a missing name reads as the nil map
lookupName(entryGroupsByName, name) ==
    IF name \in DOMAIN entryGroupsByName THEN entryGroupsByName[name]
    ELSE [id \in {} |-> <<>>]

\* the row populateDiffRows builds for entry i of the first profile, when
\* the range over the map yields the profile ids in the given order; the
\* panic of strings.Repeat leaves PanicRow
populateDiffRow(ps, i, entryGroupsByName, cols, thr, order) ==
    LET pe == ps[1][i]
        slots == lookupName(entryGroupsByName, pe.Name)
        baseLine == IF 0 \in DOMAIN slots THEN <<Deref(ps, slots[0])>> ELSE <<>>
        row == [k \in 1..(Len(ps) * Len(cols) + 1) |->
                   IF k = 1 THEN callCell(ps[1], i) ELSE ""]
    IN  IF callCell(ps[1], i) = RepeatPanic THEN PanicRow
        ELSE populateSlots(row, order, 1, ps, slots, baseLine, cols, thr)

\* the orders in which a range over a map can yield its keys
RangeOrders(keys) ==
    {order \in [1..Cardinality(keys) -> keys] :
        \A a, b \in DOMAIN order : a # b => order[a] # order[b]}

\* the keys in increasing order
RECURSIVE Ascending(_)
Ascending(keys) ==
    IF keys = {} THEN <<>>
    ELSE LET m == CHOOSE x \in keys : \A y \in keys : x <= y
         IN  <<m>> \o Ascending(keys \ {m})

RECURSIVE populateDiffRows(_, _, _, _, _, _)
RECURSIVE populateDiffRowsChildren(_, _, _, _, _, _, _)

\* the rows populateDiffRows appends for entry i and its subtree, the map
\* being ranged over in increasing key order; a panic ends the rows with
\* PanicRow
populateDiffRows(ps, i, entryGroupsByName, rows, cols, thr) ==
    LET slots == lookupName(entryGroupsByName, ps[1][i].Name)
        row == populateDiffRow(ps, i, entryGroupsByName, cols, thr,
                               Ascending(DOMAIN slots))
    IN  populateDiffRowsChildren(ps, Children(ps[1], i), 1, entryGroupsByName,
                                 Append(rows, row), cols, thr)

populateDiffRowsChildren(ps, children, k, entryGroupsByName, rows, cols, thr) ==
    IF k > Len(children) \/ Panicked(rows) THEN rows
    ELSE populateDiffRowsChildren(ps, children, k + 1, entryGroupsByName,
             populateDiffRows(ps, children[k], entryGroupsByName, rows, cols,
                              thr),
             cols, thr)

\* the table tabularizeDiff returns; when populateDiffRows panics, the rows
\* built until then, ended by PanicRow
tabularizeDiff(ps, entryGroupsByName, cols, thr) ==
    [tabularizeHeaders(ps, cols) EXCEPT
        !.Rows = populateDiffRows(ps, 1, entryGroupsByName, <<>>, cols, thr)]

----------------------------------------------------------------------------
(* Inputs *)

\* the shapes of the trees of n entries: the depths in pre-order
TreeShapes(n) ==
    {d \in [1..n -> 0..(n - 1)] :
        /\ d[1] = 0
        /\ \A i \in 2..n : d[i] \in 1..(d[i - 1] + 1)}

\* the run that produced the profile file of an argument: the arguments
\* alternate between the slow and the fast run
RunOf(index) == (index % Len(RunTimings)) + 1

Timing(run, i) == RunTimings[run][((i - 1) % Len(RunTimings[run])) + 1]

\* the profile trees of at most maxNodes entries a run can produce, the
\* root being named from roots
Trees(run, maxNodes, roots) ==
    UNION {
        { [i \in 1..n |->
             [Name |-> naming[i], Depth |-> shape[i],
              TotalTime |-> Timing(run, i).TotalTime,
              MinTime |-> Timing(run, i).MinTime,
              MaxTime |-> Timing(run, i).MaxTime,
              Invocations |-> Timing(run, i).Invocations]] :
          shape \in TreeShapes(n),
          naming \in {f \in [1..n -> Names] : f[1] \in roots} }
        : n \in 1..maxNodes }

\* the names of the root of the profile at an index: the command takes a
\* name for nothing but a key of the map, so the first name it meets, that
\* of the root of the first profile, is "main" in every input
Roots(index) == IF index = 0 THEN {"main"} ELSE Names

\* the profiles LoadProfile can return for the argument at an index
Files(index) ==
    Trees(RunOf(index), IF index = 0 THEN MaxBaseNodes ELSE MaxOtherNodes,
          Roots(index))

\* the profiles correlateEntries is called on directly: the later ones may
\* have one entry more than those of a whole run of the command
CorrelateFiles(index) ==
    Trees(RunOf(index),
          IF index = 0 THEN MaxBaseNodes ELSE MaxOtherNodes + 1, Roots(index))

\* the column lists util.ParseTableColumList can return
ColumnLists(thr) ==
    {cl.columns : cl \in {c \in CommandLines : c.threshold = thr}}

\* values of the threshold flag
Thresholds == {cl.threshold : cl \in CommandLines}

ArgName(k) == "profile-" \o FmtInt(k) \o ".json"

errNotEnoughProfiles == "\"diff\" requires at least 2 profiles"
errNoDiffColumnsSpecified == "no table columns specified for diff output"
errParseColumns == "invalid column list"
errLoadProfile == "cannot load profile"

NoTable == [Headers |-> <<>>, HeaderGroups |-> <<>>, Alignment |-> <<>>,
            Rows |-> <<>>, Padding |-> 0]
NoFmtIn == [baseLine |-> Zero, candidate |-> Zero, threshold |-> Zero]

----------------------------------------------------------------------------
(* DiffProfiles *)

Init ==
    /\ pc = "start"
    /\ args \in {[k \in 1..n |-> ArgName(k - 1)] : n \in 0..MaxArgs}
    /\ threshold \in Thresholds
    /\ diffCols = <<>>
    /\ profiles = <<>>
    /\ correlMap = EmptyMap
    /\ t = NoTable
    /\ stack = <<>>
    /\ stdout = <<>>
    /\ err = "unset"
    /\ fmtIn = NoFmtIn
    /\ fmtOut = ""

\* a CheckArgs that accepts a single profile
CheckArgsAtLeastOne ==
    /\ pc = "start"
    /\ IF Len(args) < 1
       THEN pc' = "done" /\ err' = errNotEnoughProfiles
       ELSE pc' = "columns" /\ err' = err
    /\ UNCHANGED <<args, diffCols, threshold, profiles, correlMap, t, stack,
                   stdout, fmtIn, fmtOut>>

\* if len(args) < 2 { return errNotEnoughProfiles }
CheckArgs ==
    /\ pc = "start"
    /\ IF Len(args) < 2
       THEN pc' = "done" /\ err' = errNotEnoughProfiles
       ELSE pc' = "columns" /\ err' = err
    /\ UNCHANGED <<args, diffCols, threshold, profiles, correlMap, t, stack,
                   stdout, fmtIn, fmtOut>>

\* diffCols, err := util.ParseTableColumList(...) and the two checks on it
ParseColumns ==
    /\ pc = "columns"
    /\ \/ /\ pc' = "done"
          /\ err' = errParseColumns
          /\ diffCols' = diffCols
       \/ \E cols \in ColumnLists(threshold) :
             /\ diffCols' = cols
             /\ IF Len(cols) = 0
                THEN pc' = "done" /\ err' = errNoDiffColumnsSpecified
                ELSE pc' = "load" /\ err' = err
    /\ UNCHANGED <<args, threshold, profiles, correlMap, t, stack, stdout,
                   fmtIn, fmtOut>>

\* one iteration of the loading loop
LoadProfile ==
    /\ pc = "load"
    /\ Len(profiles) < Len(args)
    /\ \/ /\ pc' = "done"
          /\ err' = errLoadProfile
          /\ profiles' = profiles
       \/ \E file \in Files(Len(profiles)) :
             /\ profiles' = Append(profiles, file)
             /\ pc' = IF Len(profiles) + 1 = Len(args) THEN "correlate"
                      ELSE "load"
             /\ err' = err
    /\ UNCHANGED <<args, diffCols, threshold, correlMap, t, stack, stdout,
                   fmtIn, fmtOut>>

\* correlMap := correlateEntries(profiles)
Correlate ==
    /\ pc = "correlate"
    /\ correlMap' = correlateEntries(profiles)
    /\ pc' = "tabularize"
    /\ UNCHANGED <<args, diffCols, threshold, profiles, t, stack, stdout, err,
                   fmtIn, fmtOut>>

\* tabularizeDiff up to its call of populateDiffRows(profiles[0], ...)
TabularizeHeaders ==
    /\ pc = "tabularize"
    /\ t' = tabularizeHeaders(profiles, diffCols)
    /\ stack' = <<1>>
    /\ pc' = "rows"
    /\ UNCHANGED <<args, diffCols, threshold, profiles, correlMap, stdout,
                   err, fmtIn, fmtOut>>

\* a populateDiffRows that handles the siblings of an entry before its
\* children
PopulateDiffRowsBreadthFirst ==
    /\ pc = "rows"
    /\ stack # <<>>
    /\ LET i == Head(stack)
           slots == lookupName(correlMap, profiles[1][i].Name)
       IN  IF callCell(profiles[1], i) = RepeatPanic
           THEN pc' = "panic" /\ UNCHANGED <<t, stack>>
           ELSE /\ \E order \in RangeOrders(DOMAIN slots) :
                     t' = [t EXCEPT !.Rows =
                             Append(@, populateDiffRow(profiles, i, correlMap,
                                           diffCols, threshold, order))]
                /\ stack' = Tail(stack) \o Children(profiles[1], i)
                /\ pc' = IF Tail(stack) \o Children(profiles[1], i) = <<>>
                         THEN "write" ELSE "rows"
    /\ UNCHANGED <<args, diffCols, threshold, profiles, correlMap, stdout,
                   err, fmtIn, fmtOut>>

\* a populateDiffRows whose lookup of the row's name stores a slot of the
\* baseline entry for every profile that has none
PopulateDiffRowsStoringSlots ==
    /\ pc = "rows"
    /\ stack # <<>>
    /\ LET i == Head(stack)
           name == profiles[1][i].Name
           slots == lookupName(correlMap, name)
       IN  IF callCell(profiles[1], i) = RepeatPanic
           THEN pc' = "panic" /\ UNCHANGED <<t, stack, correlMap>>
           ELSE /\ \E order \in RangeOrders(DOMAIN slots) :
                     t' = [t EXCEPT !.Rows =
                             Append(@, populateDiffRow(profiles, i, correlMap,
                                           diffCols, threshold, order))]
                /\ correlMap' = [correlMap EXCEPT ![name] =
                                     [id \in 0..(Len(profiles) - 1) |->
                                         IF id \in DOMAIN slots THEN slots[id]
                                         ELSE <<0, i>>]]
                /\ stack' = Children(profiles[1], i) \o Tail(stack)
                /\ pc' = IF Children(profiles[1], i) \o Tail(stack) = <<>>
                         THEN "write" ELSE "rows"
    /\ UNCHANGED <<args, diffCols, threshold, profiles, stdout,
                   err, fmtIn, fmtOut>>

\* one call of populateDiffRows: it appends the row of its entry and then
\* calls itself on the children, which wait on the stack; the panic of
\* strings.Repeat ends the command with nothing written
PopulateDiffRows ==
    /\ pc = "rows"
    /\ stack # <<>>
    /\ LET i == Head(stack)
           slots == lookupName(correlMap, profiles[1][i].Name)
       IN  IF callCell(profiles[1], i) = RepeatPanic
           THEN pc' = "panic" /\ UNCHANGED <<t, stack>>
           ELSE /\ \E order \in RangeOrders(DOMAIN slots) :
                     t' = [t EXCEPT !.Rows =
                             Append(@, populateDiffRow(profiles, i, correlMap,
                                           diffCols, threshold, order))]
                /\ stack' = Children(profiles[1], i) \o Tail(stack)
                /\ pc' = IF Children(profiles[1], i) \o Tail(stack) = <<>>
                         THEN "write" ELSE "rows"
    /\ UNCHANGED <<args, diffCols, threshold, profiles, correlMap, stdout,
                   err, fmtIn, fmtOut>>

\* diffTable.Write(os.Stdout, stripAnsiChars); return nil
WriteTable ==
    /\ pc = "write"
    /\ \E isTerminal \in BOOLEAN :
          stdout' = Append(stdout, [table |-> t, stripAnsiChars |-> ~isTerminal])
    /\ err' = "nil"
    /\ pc' = "done"
    /\ UNCHANGED <<args, diffCols, threshold, profiles, correlMap, t, stack,
                   fmtIn, fmtOut>>

Next ==
    \/ CheckArgs
    \/ ParseColumns
    \/ LoadProfile
    \/ Correlate
    \/ TabularizeHeaders
    \/ PopulateDiffRows
    \/ WriteTable

Spec == Init /\ [][Next]_vars

----------------------------------------------------------------------------
(* correlateEntries called on a list of one or more profiles *)

RECURSIVE ProfileLists(_)
ProfileLists(n) ==
    IF n = 0 THEN {<<>>}
    ELSE LET files == CorrelateFiles(n - 1)
         IN  {Append(ps, file) : ps \in ProfileLists(n - 1), file \in files}

InitCorrelate ==
    /\ pc = "correlate_call"
    /\ \E n \in 1..MaxArgs : profiles \in ProfileLists(n)
    /\ args = <<>>
    /\ threshold = Zero
    /\ diffCols = <<>>
    /\ correlMap = EmptyMap
    /\ t = NoTable
    /\ stack = <<>>
    /\ stdout = <<>>
    /\ err = "unset"
    /\ fmtIn = NoFmtIn
    /\ fmtOut = ""

CallCorrelateEntries ==
    /\ pc = "correlate_call"
    /\ correlMap' = correlateEntries(profiles)
    /\ pc' = "correlate_ret"
    /\ UNCHANGED <<args, diffCols, threshold, profiles, t, stack, stdout, err,
                   fmtIn, fmtOut>>

NextCorrelate == CallCorrelateEntries

SpecCorrelate == InitCorrelate /\ [][NextCorrelate]_vars

----------------------------------------------------------------------------
(* fmtDiff called on two values and a threshold *)

\* durations, in ticks, of the totals, minima and maxima compared
FmtTicks == {0, 1, 2, 3, 7, 20, 25, 75, 250, 1000, 2000, 2500, 2501, 2503,
             5000, 27500, 30000}

\* the values compared: totals, minima and maxima, and the averages 10.01,
\* 0.005 and 0.015
FmtValues ==
    {Millis(x) : x \in FmtTicks}
        \cup {AvgMillis(5005, 2), AvgMillis(5, 4), AvgMillis(15, 4)}

FmtThresholds == {Zero, <<1, 125>>, <<1, 5>>, <<10, 1>>, <<11, 1>>}

InitFmt ==
    /\ pc = "fmt_call"
    /\ fmtIn \in [baseLine : FmtValues, candidate : FmtValues,
                   threshold : FmtThresholds]
    /\ fmtOut = ""
    /\ args = <<>>
    /\ threshold = Zero
    /\ diffCols = <<>>
    /\ profiles = <<>>
    /\ correlMap = EmptyMap
    /\ t = NoTable
    /\ stack = <<>>
    /\ stdout = <<>>
    /\ err = "unset"

CallFmtDiff ==
    /\ pc = "fmt_call"
    /\ fmtOut' = fmtDiff(fmtIn.baseLine, fmtIn.candidate, fmtIn.threshold)
    /\ pc' = "fmt_ret"
    /\ UNCHANGED <<args, diffCols, threshold, profiles, correlMap, t, stack,
                   stdout, err, fmtIn>>

NextFmt == CallFmtDiff

SpecFmt == InitFmt /\ [][NextFmt]_vars

----------------------------------------------------------------------------
(* Properties of correlateEntries *)

\* the function names that occur in a tree
NamesOf(tree) == {tree[i].Name : i \in DOMAIN tree}

\* the entries of a tree with a given name, as positions in pre-order
NodesNamed(tree, name) == {i \in DOMAIN tree : tree[i].Name = name}

MaxOf(S) == CHOOSE x \in S : \A y \in S : y <= x

\* C1: correlateEntries returns one row per distinct function name of all
\* the trees together, and the slot of profile i in a row is present iff
\* the tree of profile i has an entry with the name of the row.
CorrelationRowsAndSlots ==
    pc = "correlate_ret" =>
        /\ Cardinality(DOMAIN correlMap)
              = Cardinality(UNION {NamesOf(profiles[k]) : k \in DOMAIN profiles})
        /\ \A name \in DOMAIN correlMap :
              \A i \in 0..(Len(profiles) - 1) :
                  (i \in DOMAIN correlMap[name])
                      <=> (name \in NamesOf(profiles[i + 1]))

\* correlateEntries has returned a row with a present and an absent slot
CorrelationWitness ==
    /\ pc = "correlate_ret"
    /\ Len(profiles) >= 2
    /\ \E name \in DOMAIN correlMap :
          /\ 0 \notin DOMAIN correlMap[name]
          /\ 1 \in DOMAIN correlMap[name]
    /\ \E name \in DOMAIN correlMap : DOMAIN correlMap[name] = {0, 1}

\* C3: when a tree has several entries with one name, the slot of that name
\* and profile holds the entry of that profile visited last in pre-order.
LastWriteWins ==
    pc = "correlate_ret" =>
        \A name \in DOMAIN correlMap :
            \A p \in DOMAIN correlMap[name] :
                /\ p \in 0..(Len(profiles) - 1)
                /\ NodesNamed(profiles[p + 1], name) # {}
                /\ correlMap[name][p]
                      = <<p, MaxOf(NodesNamed(profiles[p + 1], name))>>

\* correlateEntries has returned for trees where a name occurs twice, in
\* the first the last of them not being the last entry of the tree
LastWriteWinsWitness ==
    /\ pc = "correlate_ret"
    /\ Len(profiles) >= 2
    /\ \E name \in DOMAIN correlMap :
          /\ 0 \in DOMAIN correlMap[name]
          /\ Cardinality(NodesNamed(profiles[1], name)) = 2
          /\ correlMap[name][0][2] < Len(profiles[1])
          /\ 1 \in DOMAIN correlMap[name]
          /\ Cardinality(NodesNamed(profiles[2], name)) = 2

----------------------------------------------------------------------------
(* Properties of fmtDiff *)

\* math.Abs(baseLine - candidate) of the call
FmtAbsDelta == F64Abs(F64Sub(fmtIn.baseLine, fmtIn.candidate))

\* the float64 comparison |baseline - candidate| < threshold
FmtClipped == F64Less(FmtAbsDelta, fmtIn.threshold)

\* the float64 comparison |baseline - candidate| < 0.01
FmtNearEqual == F64Less(FmtAbsDelta, <<1, 100>>)

\* the candidate followed by the neutral marker
PlainNeutralCell(candidate) == FmtFixed2(candidate) \o " (--)"

\* the candidate followed by a coloured ratio
ColouredCell(candidate, colour, ratio) ==
    FmtFixed2(candidate) \o " (" \o colour \o FmtFixed1(ratio) \o "x"
        \o Reset \o ")"

\* the colours of the result of the call, the ratio shown being 0, 1 or
\* baseline/candidate
FmtOutColours ==
    {colour \in {Yellow, Green, Red} :
        \/ fmtOut = ColouredCell(fmtIn.candidate, colour, Zero)
        \/ fmtOut = ColouredCell(fmtIn.candidate, colour, One)
        \/ /\ fmtIn.candidate # Zero
           /\ fmtOut = ColouredCell(fmtIn.candidate, colour,
                            F64Div(fmtIn.baseLine, fmtIn.candidate))}

\* C4: when the float64 difference |baseline - candidate| is below the
\* threshold fmtDiff renders the candidate followed by "(--)" and nothing
\* else; when it is at or above the threshold it does not render that.
ClipBelowThreshold ==
    pc = "fmt_ret" =>
        /\ FmtClipped => fmtOut = PlainNeutralCell(fmtIn.candidate)
        /\ ~FmtClipped => fmtOut # PlainNeutralCell(fmtIn.candidate)

\* fmtDiff has clipped two different values
ClipWitness ==
    /\ pc = "fmt_ret"
    /\ FmtClipped
    /\ fmtIn.baseLine # fmtIn.candidate
    /\ fmtIn.candidate # Zero
    /\ fmtOut = PlainNeutralCell(fmtIn.candidate)

\* C5 as stated: an unclipped comparison is classified by the ratio
\* baseline/candidate: 0 or 1 yellow, above 1 green, below 1 red.
ClassifiedByRatio ==
    (pc = "fmt_ret" /\ ~FmtClipped /\ fmtIn.candidate # Zero) =>
        LET ratio == F64Div(fmtIn.baseLine, fmtIn.candidate)
        IN  FmtOutColours =
                IF F64Eq(ratio, Zero) \/ F64Eq(ratio, One) THEN {Yellow}
                ELSE IF F64Less(One, ratio) THEN {Green}
                ELSE {Red}

\* C5 amended: an unclipped comparison is classified by the speedup fmtDiff
\* computes, which is 1 when the float64 difference |baseline - candidate|
\* is below 0.01, else 0 when the candidate is 0, else baseline/candidate:
\* 0 or 1 yellow, above 1 green, below 1 red, and exactly one of the three.
ClassifiedBySpeedup ==
    (pc = "fmt_ret" /\ ~FmtClipped) =>
        LET neutral == \/ FmtNearEqual
                       \/ fmtIn.candidate = Zero
                       \/ fmtIn.baseLine = Zero
        IN  /\ Cardinality(FmtOutColours) = 1
            /\ FmtOutColours =
                  IF neutral THEN {Yellow}
                  ELSE IF F64Less(fmtIn.candidate, fmtIn.baseLine)
                  THEN {Green}
                  ELSE {Red}

\* fmtDiff has classified a comparison whose values differ by less than 0.01
ClassifiedWitness ==
    /\ pc = "fmt_ret"
    /\ ~FmtClipped
    /\ fmtIn.baseLine # fmtIn.candidate
    /\ fmtIn.candidate # Zero
    /\ FmtNearEqual
    /\ FmtOutColours = {Yellow}

\* C6: a zero candidate against a non-zero baseline, not clipped, renders
\* the candidate followed by "(--)".
ZeroCandidateRendersPlainNeutral ==
    (/\ pc = "fmt_ret"
     /\ fmtIn.candidate = Zero
     /\ fmtIn.baseLine # Zero
     /\ ~FmtClipped) => fmtOut = PlainNeutralCell(fmtIn.candidate)

\* the glyphs that may precede a percentage
DirectionGlyphs == {"", "< ", "> ", "v ", "^ "}

\* C7: the annotation of a comparison that is neither clipped nor neutral is
\* the percentage (baseline/candidate - 1) x 100 with one decimal.
AnnotationIsPercentage ==
    (/\ pc = "fmt_ret"
     /\ ~FmtClipped
     /\ fmtIn.candidate # Zero
     /\ fmtIn.baseLine # Zero
     /\ ~FmtNearEqual) =>
        LET b == fmtIn.baseLine
            c == fmtIn.candidate
            percent == Rat(Abs(b[1] * c[2] - c[1] * b[2]) * 100, c[1] * b[2])
        IN  \E colour \in {Yellow, Green, Red}, glyph \in DirectionGlyphs :
                fmtOut = FmtFixed2(fmtIn.candidate) \o " (" \o colour
                             \o glyph \o FmtFixed1(percent) \o "%"
                             \o Reset \o ")"

----------------------------------------------------------------------------
(* Properties of DiffProfiles and of the table it writes *)

\* the call-stack cells a row of a function name can have at a depth
CallCellsAt(name, depth) ==
    {Repeat("| ", depth) \o marker \o name : marker \in {"- ", "+ "}}

\* the call-stack cells a row of a function name can have
CallCells(name) == UNION {CallCellsAt(name, d) : d \in 0..MaxBaseNodes}

\* tabularizeDiff has returned the table and it is about to be written
TableBuilt == pc = "write"

\* C2: the rows are those of the entries of the first profile in pre-order,
\* and a name that only later profiles have never gets a row although the
\* correlation map has it.
RowsInBaselinePreOrder ==
    /\ \A k \in 1..Len(t.Rows) :
          /\ k <= Len(profiles[1])
          /\ t.Rows[k][1] \in CallCellsAt(profiles[1][k].Name,
                                          profiles[1][k].Depth)
    /\ (pc = "write" \/ (pc = "done" /\ err = "nil")) =>
          /\ Len(t.Rows) = Len(profiles[1])
          /\ \A name \in DOMAIN correlMap \ NamesOf(profiles[1]) :
                \A k \in 1..Len(t.Rows) : t.Rows[k][1] \notin CallCells(name)

\* a table is written for a first profile in which a child of the root has
\* a child of its own and a later sibling, and a later profile has a name of
\* its own
RowsWitness ==
    /\ pc = "done"
    /\ err = "nil"
    /\ Len(profiles[1]) = 4
    /\ [i \in 1..4 |-> profiles[1][i].Depth] = <<0, 1, 2, 1>>
    /\ DOMAIN correlMap \ NamesOf(profiles[1]) # {}
    /\ Len(stdout[1].table.Rows) = 4
    /\ stdout[1].table.Rows[3][1] \in CallCellsAt(profiles[1][3].Name, 2)
    /\ stdout[1].table.Rows[4][1] \in CallCellsAt(profiles[1][4].Name, 1)

\* C8: each failure returns its error with nothing written to the standard
\* output, and a run without failure writes exactly one table and returns
\* no error.
ErrorsBeforeOutput ==
    /\ Len(stdout) <= 1
    /\ stdout # <<>> => (pc = "done" /\ err = "nil")
    /\ pc = "done" =>
          IF Len(args) < 2
          THEN err = errNotEnoughProfiles /\ stdout = <<>>
          ELSE IF Len(diffCols) = 0
          THEN /\ err \in {errParseColumns, errNoDiffColumnsSpecified}
               /\ stdout = <<>>
          ELSE IF Len(profiles) < Len(args)
          THEN err = errLoadProfile /\ stdout = <<>>
          ELSE /\ err = "nil"
               /\ Len(stdout) = 1
               /\ stdout[1].table = t
               /\ Len(t.Rows) >= 1

\* the second profile could not be loaded after the first one was
LoadFailureWitness ==
    /\ pc = "done"
    /\ err = errLoadProfile
    /\ Len(profiles) = 1
    /\ Len(args) >= 2
    /\ stdout = <<>>

\* C9: the table is a function of the profiles, the columns and the
\* threshold: whatever order the range over the slots of a name takes, the
\* rows are those of the increasing order, and the correlation map is the
\* same in whatever order the profiles are visited.
TableDeterministic ==
    /\ TableBuilt =>
          t = tabularizeDiff(profiles, correlateEntries(profiles), diffCols,
                             threshold)
    /\ pc = "tabularize" =>
          \A ids \in RangeOrders(0..(Len(profiles) - 1)) :
              correlateLoop(profiles, ids, 1, EmptyMap) = correlMap
    /\ (pc = "done" /\ err = "nil") => stdout[1].table = t

\* a table is built that has a row with the slots of two profiles and more
\* than one column
DeterministicWitness ==
    /\ TableBuilt
    /\ Len(diffCols) > 1
    /\ Len(t.Rows) >= 2
    /\ \E name \in NamesOf(profiles[1]) : DOMAIN correlMap[name] = {0, 1}

\* the entry of a tree that the cells of a name are computed from
LastNamed(tree, name) == tree[MaxOf(NodesNamed(tree, name))]

\* the cell of row k for profile p and the c-th requested column
CellAt(k, p, c) == t.Rows[k][p * Len(diffCols) + (c - 1) + 1 + 1]

\* the number a column holds for an entry, the invocation count included
StatValue(dType, entry) ==
    IF dType = TableColInvocations THEN <<entry.Invocations, 1>>
    ELSE colValue(dType, entry)

\* C10 as stated: for every column, a profile without an entry of the name
\* has a blank cell, the baseline has its raw value with the no-comparison
\* marker, and a later profile has fmtDiff of the baseline's and its value.
CellsComparedInEveryColumn ==
    TableBuilt =>
        \A k \in 1..Len(t.Rows), p \in 0..(Len(profiles) - 1),
           c \in 1..Len(diffCols) :
            LET name == profiles[1][k].Name
            IN  IF NodesNamed(profiles[p + 1], name) = {}
                THEN CellAt(k, p, c) = ""
                ELSE IF p = 0
                THEN CellAt(k, p, c)
                       = FmtFixed2(StatValue(diffCols[c],
                                     LastNamed(profiles[1], name))) \o " (---)"
                ELSE CellAt(k, p, c)
                       = fmtDiff(StatValue(diffCols[c],
                                     LastNamed(profiles[1], name)),
                                 StatValue(diffCols[c],
                                     LastNamed(profiles[p + 1], name)),
                                 threshold)

\* C10 amended: a profile without an entry of the name has blank cells and
\* every index written lies inside the row; the invocations column holds the
\* plain invocation count of the profile's entry; in the columns total, avg,
\* min and max the baseline has its raw value with the marker "(---)" and a
\* later profile has fmtDiff of the baseline's and its value, the entry of a
\* profile being the last one of that name in pre-order.
CellsByProfileAndColumn ==
    TableBuilt =>
        /\ \A name \in DOMAIN correlMap :
              DOMAIN correlMap[name] \subseteq 0..(Len(profiles) - 1)
        /\ \A k \in 1..Len(t.Rows) :
              Len(t.Rows[k]) = Len(profiles) * Len(diffCols) + 1
        /\ \A k \in 1..Len(t.Rows), p \in 0..(Len(profiles) - 1),
               c \in 1..Len(diffCols) :
              LET name == profiles[1][k].Name
              IN  IF NodesNamed(profiles[p + 1], name) = {}
                  THEN CellAt(k, p, c) = ""
                  ELSE IF diffCols[c] = TableColInvocations
                  THEN CellAt(k, p, c)
                         = FmtInt(LastNamed(profiles[p + 1], name).Invocations)
                  ELSE IF p = 0
                  THEN CellAt(k, p, c)
                         = FmtFixed2(colValue(diffCols[c],
                                       LastNamed(profiles[1], name))) \o " (---)"
                  ELSE CellAt(k, p, c)
                         = fmtDiff(colValue(diffCols[c],
                                       LastNamed(profiles[1], name)),
                                   colValue(diffCols[c],
                                       LastNamed(profiles[p + 1], name)),
                                   threshold)

\* a table is built with a row whose name the second profile lacks and a
\* row whose name it has, the first profile having a later entry of that
\* name, with several columns requested
CellsWitness ==
    /\ TableBuilt
    /\ Len(diffCols) > 1
    /\ threshold # Zero
    /\ \E k \in 1..Len(t.Rows) :
          NodesNamed(profiles[2], profiles[1][k].Name) = {}
    /\ \E k \in 1..Len(t.Rows) :
          /\ NodesNamed(profiles[2], profiles[1][k].Name) # {}
          /\ Cardinality(NodesNamed(profiles[1], profiles[1][k].Name)) >= 2
          /\ k < MaxOf(NodesNamed(profiles[1], profiles[1][k].Name))

\* entry k of a tree in pre-order has a child exactly when the next entry is
\* one level deeper
HasChild(tree, k) == k < Len(tree) /\ tree[k + 1].Depth = tree[k].Depth + 1

\* C11: the call-stack cell of a row is "| " once per nesting level of the
\* entry of the first profile, then "- " when the entry has no children and
\* "+ " when it has at least one, then the function name.
CallStackCell ==
    TableBuilt =>
        \A k \in 1..Len(t.Rows) :
            LET pe == profiles[1][k]
            IN  t.Rows[k][1] =
                    Repeat("| ", pe.Depth)
                        \o (IF HasChild(profiles[1], k) THEN "+ " ELSE "- ")
                        \o pe.Name

\* a table is built whose rows are a root, its child, an entry two levels
\* deep that has a child, and that child
CallStackWitness ==
    /\ TableBuilt
    /\ Len(t.Rows) = 4
    /\ t.Rows[1][1] = "+ main"
    /\ t.Rows[2][1] = "| + foo"
    /\ t.Rows[3][1] = "| | + foo"
    /\ t.Rows[4][1] = "| | | - main"

\* the sum of the column spans of the first g header groups
RECURSIVE SumColSpans(_, _)
SumColSpans(groups, g) ==
    IF g = 0 THEN 0 ELSE groups[g].ColSpan + SumColSpans(groups, g - 1)

\* cell is one profile p can have in column c of the row of entry k: the
\* invocation count, the comparison with the baseline or the raw value
IsCellOf(cell, k, p, c) ==
    LET name == profiles[1][k].Name
        own == LastNamed(profiles[p + 1], name)
    IN  IF diffCols[c] = TableColInvocations
        THEN cell = FmtInt(own.Invocations)
        ELSE \/ cell = fmtDiffCall(colValue(diffCols[c],
                                            LastNamed(profiles[1], name)),
                                   colValue(diffCols[c], own), threshold)
             \/ cell = FmtFixed2(colValue(diffCols[c], own)) \o " (---)"

\* C12: for N profiles and M columns the table has N*M+1 headers, column 0
\* being the left-aligned "call stack" column and every other column
\* right-aligned under the header of its column type; after a leading
\* group of span 1 there is one header group of span M per profile,
\* labelled "baseline" and "profile i", so that the spans sum to the number
\* of headers; every row has N*M+1 cells and the cell of profile p for
\* column c is at index p*M+c+1.
HeaderLayout ==
    TableBuilt =>
        LET N == Len(profiles)
            M == Len(diffCols)
        IN  /\ M >= 1
            /\ Len(t.Headers) = N * M + 1
            /\ Len(t.Alignment) = N * M + 1
            /\ t.Headers[0 + 1] = "call stack"
            /\ t.Alignment[0 + 1] = AlignLeft
            /\ \A p \in 0..(N - 1), c \in 0..(M - 1) :
                  /\ t.Headers[p * M + c + 1 + 1] = Header(diffCols[c + 1])
                  /\ t.Alignment[p * M + c + 1 + 1] = AlignRight
            /\ Len(t.HeaderGroups) = N + 1
            /\ t.HeaderGroups[0 + 1].ColSpan = 1
            /\ \A p \in 0..(N - 1) :
                  /\ t.HeaderGroups[p + 1 + 1].ColSpan = M
                  /\ t.HeaderGroups[p + 1 + 1].Header =
                        IF p = 0 THEN "baseline" ELSE "profile " \o FmtInt(p)
            /\ SumColSpans(t.HeaderGroups, N + 1) = Len(t.Headers)
            /\ \A k \in 1..Len(t.Rows) :
                  /\ Len(t.Rows[k]) = N * M + 1
                  /\ \A p \in 0..(N - 1), c \in 0..(M - 1) :
                        NodesNamed(profiles[p + 1], profiles[1][k].Name) # {}
                            => IsCellOf(t.Rows[k][p * M + c + 1 + 1], k, p,
                                        c + 1)

\* a table of two profiles and four columns is built, with a row that has
\* cells of both profiles
HeaderLayoutWitness ==
    /\ TableBuilt
    /\ Len(profiles) = 2
    /\ Len(diffCols) = 4
    /\ Len(t.Headers) = 9
    /\ t.HeaderGroups[3].Header = "profile 1"
    /\ \E k \in 1..Len(t.Rows) : t.Rows[k][2] # "" /\ t.Rows[k][9] # ""

\* the rows of the table that show a function name
RowsNamed(name) == {k \in 1..Len(t.Rows) : t.Rows[k][1] \in CallCells(name)}

\* C13: the table has exactly one row per function name of the first
\* profile: as many rows as the tree has distinct names and no name in two
\* rows, also when the tree has several entries of one name.
OneRowPerBaselineName ==
    TableBuilt =>
        /\ Len(t.Rows) = Cardinality(NamesOf(profiles[1]))
        /\ \A name \in NamesOf(profiles[1]) :
              Cardinality(RowsNamed(name)) = 1

\* C14: a float64 difference that is at least the threshold and below 0.01
\* is given the speedup 1.0 and the neutral colour, whatever the ratio of
\* the values and also when the candidate is 0; equal values with threshold
\* 0 are neutral, never an improvement or a regression.
NearEqualIsNeutral ==
    (/\ pc = "fmt_ret"
     /\ ~FmtClipped
     /\ FmtNearEqual) =>
        /\ fmtOut = ColouredCell(fmtIn.candidate, Yellow, One)
        /\ FmtOutColours = {Yellow}

\* fmtDiff has compared a zero candidate with a baseline less than 0.01
\* above it, under a threshold that is not zero and does not clip it
NearEqualWitness ==
    /\ pc = "fmt_ret"
    /\ fmtIn.candidate = Zero
    /\ fmtIn.baseLine # Zero
    /\ fmtIn.threshold # Zero
    /\ ~FmtClipped
    /\ FmtNearEqual
    /\ fmtOut = ColouredCell(Zero, Yellow, One)

\* C15: the correlation map is built once by correlateEntries and only read
\* afterwards: building the headers, building the rows and writing the table
\* leave every name and every slot of it as correlateEntries returned them,
\* and neither correlation nor table assembly changes an entry of the
\* profiles or anything but the table being built.
CorrelationReadOnly ==
    /\ [](pc \in {"tabularize", "rows", "write"}
             => correlMap = correlateEntries(profiles))
    /\ [][/\ pc \in {"tabularize", "rows", "write"} => correlMap' = correlMap
          /\ pc \in {"correlate", "tabularize", "rows"} =>
                /\ profiles' = profiles
                /\ args' = args
                /\ diffCols' = diffCols
                /\ threshold' = threshold
                /\ stdout' = stdout
                /\ err' = err
          /\ pc = "correlate" => t' = t
          /\ pc = "write" => (profiles' = profiles /\ t' = t)]_vars

\* all rows of a table are built from a map in which a name of the first
\* profile has no slot for the second profile and another name has no slot
\* for the first
ReadOnlyWitness ==
    /\ TableBuilt
    /\ Len(t.Rows) = Len(profiles[1])
    /\ Len(profiles) = 2
    /\ \E name \in NamesOf(profiles[1]) : DOMAIN correlMap[name] = {0}
    /\ \E name \in DOMAIN correlMap : DOMAIN correlMap[name] = {1}
    /\ correlMap = correlateEntries(profiles)

====
